---- MODULE Spec2Model ----
(***************************************************************************)
(* korat_os: a model of the physical frame allocator (memory/mod.rs) and   *)
(* of the interrupt / locking discipline of the kernel (lib.rs,            *)
(* interrupts/mod.rs, vga_buffer/mod.rs, gdt/mod.rs), followed by models   *)
(* of the chained controller pair, of the page-table mapper behind         *)
(* create_example_mapping and of the VGA Writer, each with its own         *)
(* specification (PicSpec, MapSpec, WriterSpec).                           *)
(*                                                                         *)
(* The repository holds two source trees: dev/kernel/korat_os ("kernel")   *)
(* and dev/korat_os ("korat_os").  Where they differ (the _print function, *)
(* the handlers installed in the IDT) the model carries both, selected by  *)
(* the variable `variant`.                                                 *)
(***************************************************************************)
EXTENDS Integers, Sequences, FiniteSets, TLC

VARIABLES
    \* ---- memory/mod.rs: BootInfoFrameAllocator ----
    memory_map,     \* the boot memory map: a sequence of regions
    next,           \* the allocator's cursor
    returned,       \* history: the result of every allocate_frame call so far
    \* ---- the kernel: one core, the interrupted contexts as a stack ----
    variant,            \* the source tree linked: "kernel" or "korat_os"
    stack,              \* execution contexts; the last one is running
    interrupts_enabled, \* the CPU's interrupt-enable flag (RFLAGS.IF)
    WRITER,             \* spin::Mutex<Writer>: 0 when free, else the holder's depth
    PICS,               \* spin::Mutex<ChainedPics>: 0 when free, else the holder
    KEYBOARD,           \* spin::Mutex<Keyboard>: 0 when free, else the holder
    loaded,             \* the descriptor-table loads executed so far, in order
    pics_initialized,   \* ChainedPics::initialize has remapped the controllers
    in_service,         \* IRQ lines delivered and not yet acknowledged
    completed,          \* history: one record per handler that has returned
    init_steps,         \* history: the statements of init executed, in order
    bootstrap,          \* history: the fallible steps of kernel_main and results
    irq_vectors,        \* history: the vectors hardware IRQs were delivered on
    \* ---- the chained controller pair (ChainedPics) ----
    pic_commands,   \* history: the end-of-interrupt commands sent, in order
    \* ---- memory/mod.rs: the page-table hierarchy behind the mapper ----
    page_tables,    \* physical frame of a table |-> its entries
    allocator,      \* the FrameAllocator handed to map_to
    map_result,     \* history: the last map_to call and its result
    \* ---- vga_buffer/mod.rs: Writer ----
    column_position, \* Writer.column_position
    buffer,          \* Writer.buffer.chars: row |-> column |-> ScreenChar
    scrolls,         \* history: the number of new_line calls so far
    wrote,           \* history: the last call, the last write_byte it made
                     \* and the state before them
    panicked,        \* a call of the Writer has ended in a panic
    color_code,      \* Writer.color_code
    color_args,      \* history: the colors ColorCode::new was called with
    \* ---- lib.rs: the test binary ----
    tests,           \* the list handed to test_runner: what each test does
    test_pc,         \* the statement the test binary is at
    test_index,      \* the position of the for loop of test_runner
    started,         \* history: the tests whose body was called, in order
    finished,        \* history: the tests whose run() has returned, in order
    port_writes      \* history: the writes to an I/O port by exit_qemu

allocVars == <<memory_map, next, returned>>

kernelVars == <<variant, stack, interrupts_enabled, WRITER, PICS, KEYBOARD,
                loaded, pics_initialized, in_service, completed, init_steps,
                bootstrap, irq_vectors>>

picVars == <<pic_commands>>

mapVars == <<page_tables, allocator, map_result>>

writerVars == <<column_position, buffer, scrolls, wrote, panicked,
               color_code, color_args>>

testVars == <<tests, test_pc, test_index, started, finished, port_writes>>

\* What the kernel's steps leave alone.
otherVars == <<allocVars, picVars, mapVars, writerVars, testVars>>

vars == <<memory_map, next, returned, variant, stack, interrupts_enabled,
          WRITER, PICS, KEYBOARD, loaded, pics_initialized, in_service,
          completed, init_steps, bootstrap, irq_vectors, pic_commands,
          page_tables,
          allocator, map_result, column_position, buffer, scrolls, wrote,
          panicked, color_code, color_args, tests, test_pc, test_index,
          started, finished, port_writes>>

(***************************************************************************)
(* Bounds of the model.                                                    *)
(***************************************************************************)
MaxRegions == 2
MaxAddrUnits == 3
MaxCalls == 5

(***************************************************************************)
(* The components a specification does not exercise stay as follows.       *)
(***************************************************************************)
PicIdle == pic_commands = << >>

MapIdle ==
    /\ page_tables = << >>
    /\ allocator = "none"
    /\ map_result = << >>

WriterIdle ==
    /\ column_position = 0
    /\ buffer = << >>
    /\ scrolls = 0
    /\ wrote = << >>
    /\ panicked = FALSE
    /\ color_code = 0
    /\ color_args = << >>

TestIdle ==
    /\ tests = << >>
    /\ test_pc = "off"
    /\ test_index = 0
    /\ started = << >>
    /\ finished = << >>
    /\ port_writes = << >>

(***************************************************************************)
(* memory/mod.rs                                                           *)
(***************************************************************************)
\* The step of the address iterator and the size of a PhysFrame<Size4KiB>.
FRAME_SIZE == 4096

\* Region bounds are u64 addresses; the model draws them at half-frame
\* granularity so that unaligned bounds occur.
AddrStep == FRAME_SIZE \div 2

Addrs == { k * AddrStep : k \in 0..MaxAddrUnits }

MemoryRegionType == { "Usable", "Reserved" }

MemoryRegion == [ start : Addrs, end : Addrs, region_type : MemoryRegionType ]

MemoryMaps == UNION { [ 1..n -> MemoryRegion ] : n \in 0..MaxRegions }

\* Option<T>: None is the empty sequence, Some(x) the sequence <<x>>.
None == << >>

Some(x) == << x >>

\* (start..end).step_by(4096): start, start + 4096, ... while below end.
RECURSIVE step_by(_, _)
step_by(start, end) ==
    IF start < end
    THEN << start >> \o step_by(start + FRAME_SIZE, end)
    ELSE << >>

ContainingAddressKeepsOffset(addr) == addr

\* PhysFrame::containing_address: the start address of the frame holding addr
\* (the address aligned down to the frame size).
containing_address(addr) == addr - (addr % FRAME_SIZE)

\* regions.filter(Usable).map(range).flat_map(step_by(4096)): the frame
\* addresses of the usable regions, in list order.
RECURSIVE frame_addresses(_)
frame_addresses(regions) ==
    IF regions = << >>
    THEN << >>
    ELSE LET r == Head(regions)
         IN  (IF r.region_type = "Usable"
              THEN step_by(r.start, r.end)
              ELSE << >>) \o frame_addresses(Tail(regions))

\* BootInfoFrameAllocator::usable_frames: the frames as start addresses.
usable_frames(map) ==
    LET addrs == frame_addresses(map)
    IN  [ i \in 1..Len(addrs) |-> containing_address(addrs[i]) ]

NthCountsFromOne(seq, n) ==
    IF n + 1 < Len(seq) THEN Some(seq[n + 2]) ELSE None

\* Iterator::nth(n): the element at 0-based position n, or None.
nth(seq, n) == IF n < Len(seq) THEN Some(seq[n + 1]) ELSE None

\* The cursor after one allocate_frame call.
AdvanceResetOnNone(map, n) == IF n < Len(usable_frames(map)) THEN n + 1 ELSE 0

AdvanceOnlyOnSome(map, n) ==
    IF n < Len(usable_frames(map)) THEN n + 1 ELSE n

advance(map, n) == n + 1

\* BootInfoFrameAllocator::allocate_frame
allocate_frame ==
    /\ next < MaxCalls
    /\ LET frame == nth(usable_frames(memory_map), next)
       IN  /\ next' = advance(memory_map, next)
           /\ returned' = Append(returned, frame)
    /\ UNCHANGED memory_map
    /\ UNCHANGED kernelVars
    /\ UNCHANGED << picVars, mapVars, writerVars, testVars >>

\* BootInfoFrameAllocator::init over any boot memory map.
AllocInit ==
    /\ memory_map \in MemoryMaps
    /\ next = 0
    /\ returned = << >>
    /\ variant = "korat_os"
    /\ stack = << >>
    /\ interrupts_enabled = FALSE
    /\ WRITER = 0
    /\ PICS = 0
    /\ KEYBOARD = 0
    /\ loaded = << >>
    /\ pics_initialized = FALSE
    /\ in_service = {}
    /\ completed = {}
    /\ init_steps = << >>
    /\ bootstrap = << >>
    /\ irq_vectors = {}
    /\ PicIdle
    /\ MapIdle
    /\ WriterIdle
    /\ TestIdle

AllocNext == allocate_frame

AllocSpec == AllocInit /\ [][AllocNext]_vars

(***************************************************************************)
(* interrupts/mod.rs: vectors and the dispatch table                       *)
(***************************************************************************)
PIC_1_OFFSET == 32

Pic2OffsetOverlaps == PIC_1_OFFSET + 4

PIC_2_OFFSET == PIC_1_OFFSET + 8

\* The CPU exception vectors of idt.breakpoint and idt.double_fault.
BREAKPOINT_VECTOR == 3

DOUBLE_FAULT_VECTOR == 8

\* The CPU exception vector of idt.page_fault.
PAGE_FAULT_VECTOR == 14

\* The IRQ lines of the primary controller that are raised.
TimerLine == 0

KeyboardLine == TimerLine + 1

IrqLines == { TimerLine, KeyboardLine }

\* enum InterruptIndex { Timer = PIC_1_OFFSET, Keyboard }
InterruptIndex(name) ==
    IF name = "Timer" THEN PIC_1_OFFSET ELSE PIC_1_OFFSET + 1

\* The IDT of dev/kernel/korat_os: the handler installed at a vector.
idt_kernel(vector) ==
    CASE vector = BREAKPOINT_VECTOR -> "breakpoint"
      [] vector = PAGE_FAULT_VECTOR -> "page_fault"
      [] vector = DOUBLE_FAULT_VECTOR -> "double_fault"
      [] vector = InterruptIndex("Timer") -> "timer"
      [] vector = InterruptIndex("Keyboard") -> "keyboard"
      [] OTHER -> "missing"

\* The IDT of dev/korat_os: it has no keyboard entry.
idt_korat_os(vector) ==
    CASE vector = BREAKPOINT_VECTOR -> "breakpoint"
      [] vector = DOUBLE_FAULT_VECTOR -> "double_fault"
      [] vector = InterruptIndex("Timer") -> "timer"
      [] OTHER -> "missing"

IDT(vector) ==
    IF variant = "kernel" THEN idt_kernel(vector) ELSE idt_korat_os(vector)

(***************************************************************************)
(* Execution contexts.  A frame is the running code's position: `pc` in    *)
(* its function, `pr` inside a _print call (idle outside one).             *)
(***************************************************************************)
MaxDepth == 3

Variants == { "kernel", "korat_os" }

\* The outcomes of keyboard.add_byte / keyboard.process_keyevent.
KeyOutcomes == { "error", "incomplete", "no_key", "unicode", "raw_key" }

\* The program points that are a print! / println! call.
PrintSites == { "hello", "kprint", "print", "panic_print",
                "print_kind", "print_address", "print_code", "print_frame" }

Top == stack[Len(stack)]

Depth == Len(stack)

SetTop(f) == [ stack EXCEPT ![Len(stack)] = f ]

\* The first operation of _print in each tree.
print_entry == IF variant = "kernel" THEN "save" ELSE "lock"

\* A frame moved to program point pc.
At(f, pc) ==
    [ f EXCEPT !.pc = pc,
               !.pr = IF pc \in PrintSites THEN print_entry ELSE "idle" ]

Frame(ctx, pc, vector, saved_if) ==
    At([ ctx |-> ctx, pc |-> pc, pr |-> "idle", was |-> FALSE,
         vector |-> vector, saved_if |-> saved_if, eois |-> << >>,
         key |-> "none", out |-> 0 ], pc)

(***************************************************************************)
(* Program order of each function: the program point that follows pc.      *)
(***************************************************************************)
\* gdt::init_gdt: GDT.0.load(); CS::set_reg; SS::set_reg; load_tss.
init_gdt_flow(pc) ==
    CASE pc = "gdt_load" -> "set_cs"
      [] pc = "set_cs" -> "set_ss"
      [] pc = "set_ss" -> "load_tss"
      [] pc = "load_tss" -> "ret"

InitFlowIdtFirst(pc) ==
    CASE pc = "entry" -> "init_idt"
      [] pc = "init_idt" -> "init_gdt"
      [] pc = "init_gdt" -> "pics_lock"
      [] pc = "pics_lock" -> "pics_initialize"
      [] pc = "pics_initialize" -> "pics_unlock"
      [] pc = "pics_unlock" -> "enable"
      [] pc = "enable" -> "ret"

InitFlowPicsFirst(pc) ==
    CASE pc = "entry" -> "init_gdt"
      [] pc = "init_gdt" -> "pics_lock"
      [] pc = "pics_lock" -> "pics_initialize"
      [] pc = "pics_initialize" -> "pics_unlock"
      [] pc = "pics_unlock" -> "init_idt"
      [] pc = "init_idt" -> "enable"
      [] pc = "enable" -> "ret"

InitFlowNoRemap(pc) ==
    CASE pc = "entry" -> "init_gdt"
      [] pc = "init_gdt" -> "init_idt"
      [] pc = "init_idt" -> "enable"
      [] pc = "enable" -> "ret"

InitFlowEnableFirst(pc) ==
    CASE pc = "entry" -> "init_gdt"
      [] pc = "init_gdt" -> "init_idt"
      [] pc = "init_idt" -> "enable"
      [] pc = "enable" -> "pics_lock"
      [] pc = "pics_lock" -> "pics_initialize"
      [] pc = "pics_initialize" -> "pics_unlock"
      [] pc = "pics_unlock" -> "ret"

\* korat_os::init: init_gdt(); init_idt(); PICS.lock().initialize(); enable().
init_flow(pc) ==
    CASE pc = "entry" -> "init_gdt"
      [] pc = "init_gdt" -> "init_idt"
      [] pc = "init_idt" -> "pics_lock"
      [] pc = "pics_lock" -> "pics_initialize"
      [] pc = "pics_initialize" -> "pics_unlock"
      [] pc = "pics_unlock" -> "enable"
      [] pc = "enable" -> "ret"

TimerFlowNoEoi(pc) ==
    CASE pc = "print" -> "pics_lock"
      [] pc = "pics_lock" -> "pics_unlock"
      [] pc = "eoi" -> "pics_unlock"
      [] pc = "pics_unlock" -> "iret"

\* timer_interrupt_handler: print!("."); PICS.lock().notify_end_of_interrupt.
timer_flow(pc) ==
    CASE pc = "print" -> "pics_lock"
      [] pc = "pics_lock" -> "eoi"
      [] pc = "eoi" -> "pics_unlock"
      [] pc = "pics_unlock" -> "iret"

\* keyboard_interrupt_handler: KEYBOARD.lock(); port.read(); add_byte and
\* process_keyevent; print! of a decoded key; notify_end_of_interrupt; the
\* guard `keyboard` is dropped when the function returns.
keyboard_flow(pc, key) ==
    CASE pc = "kb_lock" -> "read_port"
      [] pc = "read_port" -> "decode"
      [] pc = "decode" ->
            IF key \in { "unicode", "raw_key" } THEN "print" ELSE "pics_lock"
      [] pc = "print" -> "pics_lock"
      [] pc = "pics_lock" -> "eoi"
      [] pc = "eoi" -> "pics_unlock"
      [] pc = "pics_unlock" -> "kb_unlock"
      [] pc = "kb_unlock" -> "iret"

BreakpointFlowHalts(pc) ==
    CASE pc = "print" -> "hlt_loop"

\* breakpoint_handler: println!(...) and return.
breakpoint_flow(pc) ==
    CASE pc = "print" -> "iret"

\* double_fault_handler: panic!(...); the panic handler prints and halts.
double_fault_flow(pc) ==
    CASE pc = "panic_print" -> "hlt_loop"

PageFaultFlowReturns(pc) ==
    CASE pc = "print_kind" -> "print_address"
      [] pc = "print_address" -> "print_code"
      [] pc = "print_code" -> "print_frame"
      [] pc = "print_frame" -> "iret"

\* page_fault_handler: println! of the fault kind, of the accessed address
\* (Cr2), of the error code and of the stack frame; then hlt_loop().
page_fault_flow(pc) ==
    CASE pc = "print_kind" -> "print_address"
      [] pc = "print_address" -> "print_code"
      [] pc = "print_code" -> "print_frame"
      [] pc = "print_frame" -> "hlt_loop"

\* The panic handler of main.rs: println!("{}", info); hlt_loop().
panic_flow(pc) ==
    CASE pc = "panic_print" -> "hlt_loop"

\* The results of Mapper::map_to as create_example_mapping and the caller of
\* init_heap see them.
MapToResults == { "Ok", "PageAlreadyMapped", "FrameAllocationFailed" }

ExpectIgnoresError(result, continue) == continue

\* Result::expect: the value of Ok lets the caller continue, an Err panics.
expect(result, continue) ==
    IF result = "Ok" THEN continue ELSE "panic_print"

\* kernel_main after korat_os::init(): create_example_mapping, then
\* allocator::init_heap(...).expect(...), then the rest of the kernel.
kernel_main_flow(pc) ==
    CASE pc = "create_example_mapping" -> "init_heap"
      [] pc = "init_heap" -> "kernel"

\* What follows the return of korat_os::init(): kernel_main of
\* dev/kernel/korat_os sets up memory, _start of dev/korat_os does not.
after_init ==
    IF variant = "kernel" THEN "create_example_mapping" ELSE "kernel"

\* _print of dev/kernel/korat_os: without_interrupts(|| WRITER.lock()
\* .write_fmt(args)): save the flag, disable, lock, write, unlock, restore.
print_flow_kernel(pr) ==
    CASE pr = "save" -> "cli"
      [] pr = "cli" -> "lock"
      [] pr = "lock" -> "write"
      [] pr = "write" -> "unlock"
      [] pr = "unlock" -> "restore"
      [] pr = "restore" -> "ret"

\* _print of dev/korat_os: WRITER.lock().write_fmt(args).
print_flow_korat_os(pr) ==
    CASE pr = "lock" -> "write"
      [] pr = "write" -> "unlock"
      [] pr = "unlock" -> "ret"

print_flow(pr) ==
    IF variant = "kernel" THEN print_flow_kernel(pr) ELSE print_flow_korat_os(pr)

\* The first program point of a handler.
handler_entry(ctx) ==
    CASE ctx = "timer" -> "print"
      [] ctx = "keyboard" -> "kb_lock"
      [] ctx = "breakpoint" -> "print"
      [] ctx = "double_fault" -> "panic_print"
      [] ctx = "page_fault" -> "print_kind"

\* The program point after pc in frame f (a "ret" of init returns to main).
Follows(f) ==
    CASE f.ctx = "timer" -> timer_flow(f.pc)
      [] f.ctx = "keyboard" -> keyboard_flow(f.pc, f.key)
      [] f.ctx = "breakpoint" -> breakpoint_flow(f.pc)
      [] f.ctx = "double_fault" -> double_fault_flow(f.pc)
      [] f.ctx = "page_fault" -> page_fault_flow(f.pc)
      [] f.ctx = "main" ->
            CASE f.pc = "hello" -> init_flow("entry")
              [] f.pc = "kprint" -> "kernel"
              [] f.pc = "panic_print" -> panic_flow(f.pc)
              [] f.pc = "init_gdt" -> "gdt_load"
              [] f.pc \in { "gdt_load", "set_cs", "set_ss" } -> init_gdt_flow(f.pc)
              [] f.pc = "load_tss" -> init_flow("init_gdt")
              [] OTHER -> IF init_flow(f.pc) = "ret" THEN after_init
                          ELSE init_flow(f.pc)

Advance(f) == At(f, Follows(f))


(***************************************************************************)
(* vga_buffer/mod.rs: _print, one operation per step                       *)
(***************************************************************************)
RestoreAlwaysEnable(was, current) == TRUE

\* The end of without_interrupts: enable again only if the flag was set.
restore_interrupts(was, current) == IF was THEN TRUE ELSE current

\* print! / println!: the running context executes the next operation of
\* _print.  spin::Mutex::lock spins while the lock is held: no step.
_print ==
    /\ Top.pr # "idle"
    /\ LET f == Top
           nxt == print_flow(f.pr)
           g == IF nxt = "ret" THEN Advance(f) ELSE [ f EXCEPT !.pr = nxt ]
       IN  CASE f.pr = "save" ->
                  /\ stack' = SetTop([ g EXCEPT !.was = interrupts_enabled ])
                  /\ UNCHANGED << interrupts_enabled, WRITER >>
             [] f.pr = "cli" ->
                  /\ interrupts_enabled' =
                        (IF f.was THEN FALSE ELSE interrupts_enabled)
                  /\ stack' = SetTop(g)
                  /\ UNCHANGED WRITER
             [] f.pr = "lock" ->
                  /\ WRITER = 0
                  /\ WRITER' = Depth
                  /\ stack' = SetTop(g)
                  /\ UNCHANGED interrupts_enabled
             [] f.pr = "write" ->
                  /\ stack' = SetTop([ g EXCEPT !.out =
                                         IF f.ctx = "main" THEN 0 ELSE f.out + 1 ])
                  /\ UNCHANGED << interrupts_enabled, WRITER >>
             [] f.pr = "unlock" ->
                  /\ WRITER' = 0
                  /\ stack' = SetTop(g)
                  /\ UNCHANGED interrupts_enabled
             [] f.pr = "restore" ->
                  /\ interrupts_enabled' =
                        restore_interrupts(f.was, interrupts_enabled)
                  /\ stack' = SetTop(g)
                  /\ UNCHANGED WRITER
    /\ UNCHANGED << variant, PICS, KEYBOARD, loaded, pics_initialized,
                    in_service, completed >>
    /\ UNCHANGED << init_steps, bootstrap, irq_vectors >>
    /\ UNCHANGED otherVars

(***************************************************************************)
(* gdt/mod.rs and lib.rs: initialization                                   *)
(***************************************************************************)
\* gdt::init_gdt, one load per step.
init_gdt ==
    /\ Top.ctx = "main"
    /\ Top.pc \in { "gdt_load", "set_cs", "set_ss", "load_tss" }
    /\ loaded' = Append(loaded,
                    CASE Top.pc = "gdt_load" -> "gdt"
                      [] Top.pc = "set_cs" -> "cs"
                      [] Top.pc = "set_ss" -> "ss"
                      [] Top.pc = "load_tss" -> "tss")
    /\ stack' = SetTop(Advance(Top))
    /\ UNCHANGED << variant, interrupts_enabled, WRITER, PICS, KEYBOARD,
                    pics_initialized, in_service, completed >>
    /\ init_steps' = IF Top.pc = "load_tss"
                     THEN Append(init_steps, "init_gdt") ELSE init_steps
    /\ UNCHANGED << bootstrap, irq_vectors >>
    /\ UNCHANGED otherVars

\* korat_os::init, one statement (or lock operation) per step.
init ==
    /\ Top.ctx = "main"
    /\ Top.pc \in { "init_gdt", "init_idt", "pics_lock", "pics_initialize",
                    "pics_unlock", "enable" }
    /\ loaded' = IF Top.pc = "init_idt" THEN Append(loaded, "idt") ELSE loaded
    /\ CASE Top.pc = "pics_lock" -> PICS = 0 /\ PICS' = Depth
         [] Top.pc = "pics_unlock" -> PICS' = 0
         [] OTHER -> UNCHANGED PICS
    /\ pics_initialized' = (pics_initialized \/ Top.pc = "pics_initialize")
    /\ interrupts_enabled' = (interrupts_enabled \/ Top.pc = "enable")
    /\ stack' = SetTop(Advance(Top))
    /\ init_steps' =
          CASE Top.pc = "init_idt" -> Append(init_steps, "init_idt")
            [] Top.pc = "pics_initialize" -> Append(init_steps, "initialize")
            [] Top.pc = "enable" -> Append(init_steps, "enable")
            [] OTHER -> init_steps
    /\ UNCHANGED << variant, WRITER, KEYBOARD, in_service, completed,
                    bootstrap, irq_vectors >>
    /\ UNCHANGED otherVars

\* The code that runs after init: it prints (kernel_main's println! calls,
\* the test cases) or ends in hlt_loop.
kernel_main ==
    /\ Top.ctx = "main"
    /\ Top.pc = "kernel"
    /\ \E pc \in { "kprint", "hlt" } : stack' = SetTop(At(Top, pc))
    /\ UNCHANGED << variant, interrupts_enabled, WRITER, PICS, KEYBOARD,
                    loaded, pics_initialized, in_service, completed >>
    /\ UNCHANGED << init_steps, bootstrap, irq_vectors >>
    /\ UNCHANGED otherVars

\* create_example_mapping: mapper.map_to(...).expect("map_to failed").
\* The result of map_to depends on the page tables the bootloader built and
\* on the allocator: any of its results can come back.
create_example_mapping ==
    /\ Top.ctx = "main"
    /\ Top.pc = "create_example_mapping"
    /\ \E result \in MapToResults :
          /\ bootstrap' = Append(bootstrap,
                             [ step |-> "create_example_mapping",
                               result |-> result ])
          /\ stack' = SetTop(At(Top, expect(result, kernel_main_flow(Top.pc))))
    /\ UNCHANGED << variant, interrupts_enabled, WRITER, PICS, KEYBOARD,
                    loaded, pics_initialized, in_service, completed,
                    init_steps, irq_vectors >>
    /\ UNCHANGED otherVars

\* allocator::init_heap(&mut mapper, &mut frame_allocator)
\*     .expect("heap initialization failed")
init_heap ==
    /\ Top.ctx = "main"
    /\ Top.pc = "init_heap"
    /\ \E result \in MapToResults :
          /\ bootstrap' = Append(bootstrap,
                             [ step |-> "init_heap", result |-> result ])
          /\ stack' = SetTop(At(Top, expect(result, kernel_main_flow(Top.pc))))
    /\ UNCHANGED << variant, interrupts_enabled, WRITER, PICS, KEYBOARD,
                    loaded, pics_initialized, in_service, completed,
                    init_steps, irq_vectors >>
    /\ UNCHANGED otherVars

(***************************************************************************)
(* interrupts/mod.rs: entry through the IDT, the handlers, the return      *)
(***************************************************************************)
EnterTrapGate(vector) ==
    LET h == IDT(vector)
        v == IF h = "missing" THEN DOUBLE_FAULT_VECTOR ELSE vector
        ctx == IDT(v)
    IN  /\ stack' = Append(stack,
                       Frame(ctx, handler_entry(ctx), v, interrupts_enabled))
        /\ interrupts_enabled' = interrupts_enabled

\* The CPU enters the handler installed at the vector.  set_handler_fn
\* installs interrupt gates: the flag is saved in the frame and cleared.  A
\* vector with no handler ends in the double-fault handler.
Enter(vector) ==
    LET h == IDT(vector)
        v == IF h = "missing" THEN DOUBLE_FAULT_VECTOR ELSE vector
        ctx == IDT(v)
    IN  /\ stack' = Append(stack,
                       Frame(ctx, handler_entry(ctx), v, interrupts_enabled))
        /\ interrupts_enabled' = FALSE

\* The controller pair raises an IRQ line: the flag is set and no line of the
\* same or a higher priority is in service.
Deliverable(line) ==
    /\ interrupts_enabled
    /\ \A l \in in_service : l > line

\* The offset of the primary controller before ChainedPics::initialize has
\* remapped it: inside the exception range, line 0 on the double-fault
\* vector.
UNMAPPED_PIC_OFFSET == DOUBLE_FAULT_VECTOR

\* The vector the primary controller signals for a line.
irq_vector(line) ==
    (IF pics_initialized THEN PIC_1_OFFSET ELSE UNMAPPED_PIC_OFFSET) + line

CanDeliver(line) == Deliverable(line) /\ Depth < MaxDepth

DeliverIrq ==
    /\ \E line \in IrqLines :
          /\ CanDeliver(line)
          /\ Enter(irq_vector(line))
          /\ in_service' = in_service \cup { line }
          /\ irq_vectors' = irq_vectors \cup { irq_vector(line) }
    /\ UNCHANGED << variant, WRITER, PICS, KEYBOARD, loaded,
                    pics_initialized, completed >>
    /\ UNCHANGED << init_steps, bootstrap >>
    /\ UNCHANGED otherVars

\* test_breakpoint_exception: kernel code executes int3.
int3 ==
    /\ Top.ctx = "main"
    /\ Top.pc = "kernel"
    /\ Depth < MaxDepth
    /\ Enter(BREAKPOINT_VECTOR)
    /\ UNCHANGED << variant, WRITER, PICS, KEYBOARD, loaded,
                    pics_initialized, in_service, completed >>
    /\ UNCHANGED << init_steps, bootstrap, irq_vectors >>
    /\ UNCHANGED otherVars

\* A memory access of kernel code faults: in the kernel proper or inside a
\* print (the formatting of the arguments, the writes to the buffer).  The
\* interrupt-enable flag does not hold an exception back.
page_fault ==
    /\ Top.ctx = "main"
    /\ Top.pc \in { "kernel", "kprint" }
    /\ Depth < MaxDepth
    /\ Enter(PAGE_FAULT_VECTOR)
    /\ UNCHANGED << variant, WRITER, PICS, KEYBOARD, loaded,
                    pics_initialized, in_service, completed >>
    /\ UNCHANGED << init_steps, bootstrap, irq_vectors >>
    /\ UNCHANGED otherVars

\* The line a non-specific end-of-interrupt clears: the one of the highest
\* priority in service.
Highest(lines) == CHOOSE l \in lines : \A m \in lines : l <= m

\* PICS.lock().notify_end_of_interrupt(index): lock, acknowledge, unlock.
notify_end_of_interrupt(f, index) ==
    CASE f.pc = "pics_lock" ->
            /\ PICS = 0
            /\ PICS' = Depth
            /\ stack' = SetTop(Advance(f))
            /\ UNCHANGED in_service
      [] f.pc = "eoi" ->
            /\ in_service' = IF in_service = {} THEN {}
                             ELSE in_service \ { Highest(in_service) }
            /\ stack' = SetTop(Advance([ f EXCEPT !.eois = Append(@, index) ]))
            /\ UNCHANGED PICS
      [] f.pc = "pics_unlock" ->
            /\ PICS' = 0
            /\ stack' = SetTop(Advance(f))
            /\ UNCHANGED in_service

timer_interrupt_handler ==
    /\ Top.ctx = "timer"
    /\ Top.pc \in { "pics_lock", "eoi", "pics_unlock" }
    /\ notify_end_of_interrupt(Top, InterruptIndex("Timer"))
    /\ UNCHANGED << variant, interrupts_enabled, WRITER, KEYBOARD, loaded,
                    pics_initialized, completed >>
    /\ UNCHANGED << init_steps, bootstrap, irq_vectors >>
    /\ UNCHANGED otherVars

keyboard_interrupt_handler ==
    /\ Top.ctx = "keyboard"
    /\ Top.pr = "idle"
    /\ Top.pc # "iret"
    /\ CASE Top.pc = "kb_lock" ->
               /\ KEYBOARD = 0
               /\ KEYBOARD' = Depth
               /\ stack' = SetTop(Advance(Top))
               /\ UNCHANGED << PICS, in_service >>
         [] Top.pc = "read_port" ->
               /\ stack' = SetTop(Advance(Top))
               /\ UNCHANGED << KEYBOARD, PICS, in_service >>
         [] Top.pc = "decode" ->
               /\ \E key \in KeyOutcomes :
                     stack' = SetTop(Advance([ Top EXCEPT !.key = key ]))
               /\ UNCHANGED << KEYBOARD, PICS, in_service >>
         [] Top.pc = "kb_unlock" ->
               /\ KEYBOARD' = 0
               /\ stack' = SetTop(Advance(Top))
               /\ UNCHANGED << PICS, in_service >>
         [] OTHER ->
               /\ notify_end_of_interrupt(Top, InterruptIndex("Keyboard"))
               /\ UNCHANGED KEYBOARD
    /\ UNCHANGED << variant, interrupts_enabled, WRITER, loaded,
                    pics_initialized, completed >>
    /\ UNCHANGED << init_steps, bootstrap, irq_vectors >>
    /\ UNCHANGED otherVars

\* The return of a handler (iretq): the interrupted context resumes with the
\* flag it had.  The record of the finished handler is kept.
iret ==
    /\ Depth > 1
    /\ Top.pc = "iret"
    /\ stack' = SubSeq(stack, 1, Depth - 1)
    /\ interrupts_enabled' = Top.saved_if
    /\ completed' = completed \cup
          { [ ctx |-> Top.ctx, vector |-> Top.vector, eois |-> Top.eois,
              key |-> Top.key, out |-> Top.out ] }
    /\ UNCHANGED << variant, WRITER, PICS, KEYBOARD, loaded,
                    pics_initialized, in_service >>
    /\ UNCHANGED << init_steps, bootstrap, irq_vectors >>
    /\ UNCHANGED otherVars

\* The state the bootloader hands over: interrupts disabled, nothing loaded,
\* the entry point about to print its greeting.
Init ==
    /\ variant \in Variants
    /\ stack = << Frame("main", "hello", 0, FALSE) >>
    /\ interrupts_enabled = FALSE
    /\ WRITER = 0
    /\ PICS = 0
    /\ KEYBOARD = 0
    /\ loaded = << >>
    /\ pics_initialized = FALSE
    /\ in_service = {}
    /\ completed = {}
    /\ init_steps = << >>
    /\ bootstrap = << >>
    /\ irq_vectors = {}
    /\ memory_map = << >>
    /\ next = 0
    /\ returned = << >>
    /\ PicIdle
    /\ MapIdle
    /\ WriterIdle
    /\ TestIdle

Next ==
    \/ _print
    \/ init_gdt
    \/ init
    \/ kernel_main
    \/ create_example_mapping
    \/ init_heap
    \/ int3
    \/ page_fault
    \/ DeliverIrq
    \/ timer_interrupt_handler
    \/ keyboard_interrupt_handler
    \/ iret

Spec == Init /\ [][Next]_vars

\* The steps the processor executes itself: every step but the arrival of
\* an IRQ.  The processor never stops executing instructions.
CpuStep ==
    \/ _print
    \/ init_gdt
    \/ init
    \/ kernel_main
    \/ create_example_mapping
    \/ init_heap
    \/ int3
    \/ page_fault
    \/ timer_interrupt_handler
    \/ keyboard_interrupt_handler
    \/ iret

FairSpec == Spec /\ WF_vars(CpuStep)


(***************************************************************************)
(* Claims about the frame allocator (checked under AllocSpec).             *)
(***************************************************************************)
\* The frames handed out so far, as start addresses, in call order.
RECURSIVE FramesOf(_)
FramesOf(results) ==
    IF results = << >>
    THEN << >>
    ELSE Head(results) \o FramesOf(Tail(results))

\* The whole frame [f, f + 4096) lies inside one region of kind Usable.
InsideUsableRegion(f) ==
    \E j \in DOMAIN memory_map :
        /\ memory_map[j].region_type = "Usable"
        /\ memory_map[j].start <= f
        /\ f + FRAME_SIZE <= memory_map[j].end

AscendingNonOverlapping(map) ==
    /\ \A i \in DOMAIN map : map[i].start <= map[i].end
    /\ \A i, j \in DOMAIN map : i < j => map[i].end <= map[j].start

C3_ExhaustionIsFinal ==
    /\ [](\A i \in DOMAIN returned :
            (returned[i] # None) <=> (i <= Len(usable_frames(memory_map))))
    /\ [][ /\ next' >= next
           /\ (returned # << >> /\ returned[Len(returned)] = None)
                 => returned'[Len(returned')] = None ]_vars

\* A call returned a frame and the two calls after it returned None.
C3_Witness ==
    \E i \in DOMAIN returned :
        /\ returned[i] # None
        /\ i + 2 <= Len(returned)
        /\ returned[i + 1] = None
        /\ returned[i + 2] = None

(***************************************************************************)
(* Claims about interrupts and locks (checked under Spec / FairSpec).      *)
(***************************************************************************)
IrqHandlers == { "timer", "keyboard" }

\* The vector a hardware-IRQ handler is installed at.
InstalledAt(ctx) ==
    IF ctx = "timer" THEN PIC_1_OFFSET + TimerLine
    ELSE PIC_1_OFFSET + KeyboardLine

\* C4: every execution of a hardware-IRQ handler, on every path, has sent
\* exactly one end-of-interrupt when it returns, for the vector the handler
\* is installed at; no execution ever sends more than one.
C4_ExactlyOneEoi ==
    /\ \A c \in completed :
          c.ctx \in IrqHandlers =>
             /\ c.eois = << c.vector >>
             /\ c.vector = InstalledAt(c.ctx)
    /\ \A i \in DOMAIN stack :
          stack[i].ctx \in IrqHandlers =>
             /\ Len(stack[i].eois) <= 1
             /\ stack[i].pc = "iret" => stack[i].eois = << InstalledAt(stack[i].ctx) >>

\* A timer handler, a keyboard handler whose byte the decoder rejected and a
\* keyboard handler that printed a key have all returned.
C4_Witness ==
    /\ \E c \in completed : c.ctx = "timer"
    /\ \E c \in completed : c.ctx = "keyboard" /\ c.key = "error"
    /\ \E c \in completed : c.ctx = "keyboard" /\ c.key = "unicode" /\ c.out = 1

\* C5: whenever the diagnostic output lock WRITER is held, hardware
\* interrupts are disabled.
C5_WriterHeldInterruptsOff == WRITER # 0 => ~interrupts_enabled

\* A timer handler is running or suspended.
InTimerHandler == \E i \in DOMAIN stack : stack[i].ctx = "timer"

\* C6: every timer-handler invocation eventually completes its output, sends
\* end-of-interrupt and returns to the interrupted code.
C6_TimerHandlerReturns == InTimerHandler ~> ~InTimerHandler

\* C7: PICS and KEYBOARD are never held by code an IRQ handler can
\* interrupt: while either is held interrupts are disabled and the holder is
\* the running context; PICS is held only by init and by IRQ handlers,
\* KEYBOARD only by the keyboard handler; a handler never finds either held.
C7_HandlerLocksNotInterruptible ==
    /\ (PICS # 0 \/ KEYBOARD # 0) => ~interrupts_enabled
    /\ PICS \in { 0, Depth }
    /\ KEYBOARD \in { 0, Depth }
    /\ PICS # 0 =>
          \/ stack[PICS].ctx \in IrqHandlers
          \/ /\ stack[PICS].ctx = "main"
             /\ stack[PICS].pc \in { "pics_initialize", "pics_unlock" }
    /\ KEYBOARD # 0 => stack[KEYBOARD].ctx = "keyboard"
    /\ (Top.pr = "idle" /\ Top.pc = "pics_lock") => PICS = 0
    /\ (Top.pr = "idle" /\ Top.pc = "kb_lock") => KEYBOARD = 0

\* The keyboard handler, which interrupted a print of the kernel, holds both
\* locks.
C7_Witness ==
    /\ Depth = 2
    /\ PICS = 2
    /\ KEYBOARD = 2
    /\ stack[1].pc = "kprint"

\* C8: from entry to return of a breakpoint, timer or keyboard handler the
\* interrupt-enable flag is off (a print inside restores the disabled
\* state), and handlers never nest.
C8_HandlersRunDisabled ==
    /\ Depth <= 2
    /\ (Depth = 2 /\ Top.ctx \in { "breakpoint", "timer", "keyboard" })
          => ~interrupts_enabled

\* A handler that interrupted code running with interrupts enabled has
\* finished a print made through without_interrupts.
C8_Witness ==
    /\ variant = "kernel"
    /\ Depth = 2
    /\ Top.ctx \in { "breakpoint", "timer", "keyboard" }
    /\ Top.saved_if
    /\ Top.out = 1
    /\ Top.pr = "idle"

\* C9: while KEYBOARD is held, before and after the end-of-interrupt, no
\* keyboard interrupt can be delivered; at most one keyboard handler exists
\* and it never finds its own lock held.
C9_NoKeyboardRefireUnderLock ==
    /\ KEYBOARD # 0 => ~Deliverable(KeyboardLine)
    /\ Cardinality({ i \in DOMAIN stack : stack[i].ctx = "keyboard" }) <= 1
    /\ (Top.ctx = "keyboard" /\ Top.pc = "kb_lock") => KEYBOARD = 0

\* The keyboard handler has acknowledged its interrupt and still holds the
\* lock: only the interrupt-enable flag holds the next keyboard IRQ back.
C9_Witness ==
    /\ KEYBOARD # 0
    /\ Top.ctx = "keyboard"
    /\ Top.eois # << >>
    /\ KeyboardLine \notin in_service

\* The loads of init, in program order.
LoadOrder == << "gdt", "cs", "ss", "tss", "idt" >>

\* C10: init loads the descriptor bundle (GDT, CS, SS, task register) and
\* then the dispatch table, each once and in that order, and interrupts are
\* never enabled before all of them are loaded.
C10_TablesLoadedBeforeEnable ==
    /\ Len(loaded) <= Len(LoadOrder)
    /\ loaded = SubSeq(LoadOrder, 1, Len(loaded))
    /\ (interrupts_enabled \/ Depth > 1) => loaded = LoadOrder

\* init has run to its end: interrupts are enabled with both tables loaded.
C10_Witness ==
    /\ interrupts_enabled
    /\ loaded = LoadOrder
    /\ Top.pc = "kernel"

\* A sequence is an initial part of another.
IsPrefix(s, t) == Len(s) <= Len(t) /\ s = SubSeq(t, 1, Len(s))

\* C11 as stated: init performs its four steps in the order descriptor
\* bundle, dispatch table, enable hardware interrupts, initialize the
\* controller pair.
C11_EnableThenInitialize ==
    IsPrefix(init_steps, << "init_gdt", "init_idt", "enable", "initialize" >>)

\* C11: init performs its four steps in the order descriptor bundle,
\* dispatch table, initialize the controller pair, enable hardware
\* interrupts; interrupts are off until the last step.
C11_InitializeThenEnable ==
    /\ IsPrefix(init_steps, << "init_gdt", "init_idt", "initialize", "enable" >>)
    /\ Len(init_steps) < 4 => (~interrupts_enabled /\ Depth = 1)

\* init has executed its four statements.
C11_Witness == Len(init_steps) = 4

(***************************************************************************)
(* Claims about exceptions and the bootstrap (Spec / FairSpec).            *)
(***************************************************************************)
\* A breakpoint handler is on the stack.
InBreakpoint == \E i \in DOMAIN stack : stack[i].ctx = "breakpoint"

\* C12: a breakpoint trap raised after init runs the breakpoint handler,
\* which logs the saved frame once and returns: the handler is never
\* interrupted, never waits for the output lock, never reaches a halt or a
\* panic, eventually returns, and the interrupted code resumes where it was.
C12_BreakpointReturns ==
    /\ [](\A i \in DOMAIN stack :
             stack[i].ctx = "breakpoint" =>
                /\ i = Depth
                /\ i > 1
                /\ stack[i].pc \in { "print", "iret" }
                /\ stack[i].pc = "iret" => stack[i].out = 1
                /\ stack[i].pr = "lock" => WRITER = 0
                /\ stack[i - 1].pc = "kernel"
                /\ init_steps = << "init_gdt", "init_idt", "initialize", "enable" >>)
    /\ [](\A c \in completed : c.ctx = "breakpoint" => c.out = 1)
    /\ [][(InBreakpoint /\ ~InBreakpoint') =>
             stack' = SubSeq(stack, 1, Depth - 1)]_vars
    /\ (InBreakpoint ~> ~InBreakpoint)

\* A breakpoint handler has returned and the kernel runs again.
C12_Witness ==
    /\ \E c \in completed : c.ctx = "breakpoint"
    /\ Depth = 1
    /\ Top.pc = "kernel"

FatalHandlers == { "page_fault", "double_fault" }

\* A page-fault or double-fault handler has been entered.
FatalEntered == \E i \in DOMAIN stack : stack[i].ctx \in FatalHandlers

\* C13: once the page-fault or the double-fault handler is entered control
\* never returns to the interrupted code: no such handler ever returns, the
\* page-fault handler ends in the halt loop and the double-fault handler in
\* the panic, and the interrupted contexts never move again.
C13_FatalFaultsNeverResume ==
    /\ [](\A c \in completed : c.ctx \notin FatalHandlers)
    /\ [](\A i \in DOMAIN stack :
             /\ stack[i].ctx \in FatalHandlers => i = Depth
             /\ stack[i].ctx = "page_fault" =>
                   stack[i].pc \in { "print_kind", "print_address",
                                     "print_code", "print_frame", "hlt_loop" }
             /\ stack[i].ctx = "double_fault" =>
                   stack[i].pc \in { "panic_print", "hlt_loop" })
    /\ [][FatalEntered =>
             /\ Len(stack') = Len(stack)
             /\ \A i \in 1..(Depth - 1) : stack'[i] = stack[i]
             /\ stack'[Depth].ctx = stack[Depth].ctx]_vars

\* The page-fault handler has printed its four lines and halted.
C13_Witness ==
    /\ Top.ctx = "page_fault"
    /\ Top.pc = "hlt_loop"
    /\ Top.out = 4

\* C14: for every page fault, whatever the interrupted code was doing
\* (holding the output lock included), the handler emits its diagnostics and
\* then halts: the handler never waits for an output lock that the code it
\* interrupted holds.
C14_PageFaultAlwaysDiagnosed ==
    \A i \in DOMAIN stack :
        (stack[i].ctx = "page_fault" /\ stack[i].pr = "lock") => WRITER = 0

\* C19: a failure of a bootstrap step (the example mapping, the heap
\* initialization) is fatal: it is the last step the kernel performs, and
\* the kernel is from then on in the panic handler (printing, then halted).
C19_BootstrapFailureIsFatal ==
    /\ IsPrefix([ i \in DOMAIN bootstrap |-> bootstrap[i].step ],
                << "create_example_mapping", "init_heap" >>)
    /\ \A i \in DOMAIN bootstrap :
          bootstrap[i].result # "Ok" =>
             /\ i = Len(bootstrap)
             /\ stack[1].pc \in { "panic_print", "hlt_loop" }

\* The heap initialization failed after the example mapping succeeded, and
\* the kernel has halted in the panic handler.
C19_Witness ==
    /\ Len(bootstrap) = 2
    /\ bootstrap[2].result = "FrameAllocationFailed"
    /\ stack[1].pc = "hlt_loop"

(***************************************************************************)
(* The kernel and the allocator while another component is exercised.      *)
(***************************************************************************)
KernelIdle ==
    /\ variant = "kernel"
    /\ stack = << >>
    /\ interrupts_enabled = FALSE
    /\ WRITER = 0
    /\ PICS = 0
    /\ KEYBOARD = 0
    /\ loaded = << >>
    /\ pics_initialized = FALSE
    /\ in_service = {}
    /\ completed = {}
    /\ init_steps = << >>
    /\ bootstrap = << >>
    /\ irq_vectors = {}

AllocIdle ==
    /\ memory_map = << >>
    /\ next = 0
    /\ returned = << >>

(***************************************************************************)
(* interrupts/mod.rs: PICS, the chained controller pair.  The pair lives   *)
(* in the pic8259 crate; its acknowledgment is modelled from the           *)
(* specification (section 4, acknowledge).                                 *)
(***************************************************************************)
MaxCommands == 5

\* The number of lines of one controller: the distance of the two offsets.
LinesPerPic == PIC_2_OFFSET - PIC_1_OFFSET

\* The controller at `offset` serves the vectors offset .. offset + 7.
handles_interrupt(offset, interrupt_id) ==
    offset <= interrupt_id /\ interrupt_id < offset + LinesPerPic

\* The vectors acknowledged: the ends of both controllers' ranges and their
\* neighbours outside.
AckVectors ==
    { PIC_1_OFFSET - 1, PIC_1_OFFSET, PIC_2_OFFSET - 1, PIC_2_OFFSET,
      PIC_2_OFFSET + LinesPerPic - 1, PIC_2_OFFSET + LinesPerPic }

EoiPrimaryFirst(interrupt_id) ==
    IF handles_interrupt(PIC_2_OFFSET, interrupt_id)
    THEN << [ pic |-> "primary", vector |-> interrupt_id ],
            [ pic |-> "secondary", vector |-> interrupt_id ] >>
    ELSE IF handles_interrupt(PIC_1_OFFSET, interrupt_id)
         THEN << [ pic |-> "primary", vector |-> interrupt_id ] >>
         ELSE << >>

\* The end-of-interrupt commands one acknowledgment sends, in order: to the
\* secondary controller if the vector is one of its own, then to the
\* primary; none for a vector of neither controller.
eoi_commands(interrupt_id) ==
    IF handles_interrupt(PIC_2_OFFSET, interrupt_id)
    THEN << [ pic |-> "secondary", vector |-> interrupt_id ],
            [ pic |-> "primary", vector |-> interrupt_id ] >>
    ELSE IF handles_interrupt(PIC_1_OFFSET, interrupt_id)
         THEN << [ pic |-> "primary", vector |-> interrupt_id ] >>
         ELSE << >>

\* PICS.lock().notify_end_of_interrupt(interrupt_id)
acknowledge ==
    /\ Len(pic_commands) < MaxCommands
    /\ \E interrupt_id \in AckVectors :
          pic_commands' = pic_commands \o eoi_commands(interrupt_id)
    /\ UNCHANGED << kernelVars, allocVars, mapVars, writerVars, testVars >>

PicInit ==
    /\ pic_commands = << >>
    /\ KernelIdle
    /\ AllocIdle
    /\ MapIdle
    /\ WriterIdle
    /\ TestIdle

PicNext == acknowledge

PicSpec == PicInit /\ [][PicNext]_vars

\* C15: an acknowledgment of a vector of the secondary controller sends the
\* end-of-interrupt to the secondary controller first and to the primary
\* directly after it; the secondary is sent nothing for any other vector.
C15_SecondaryThenPrimary ==
    \A i \in DOMAIN pic_commands :
        LET c == pic_commands[i]
        IN  /\ c.pic = "secondary" =>
                  /\ handles_interrupt(PIC_2_OFFSET, c.vector)
                  /\ i < Len(pic_commands)
                  /\ pic_commands[i + 1] =
                        [ pic |-> "primary", vector |-> c.vector ]
            /\ (c.pic = "primary" /\ handles_interrupt(PIC_2_OFFSET, c.vector)) =>
                  /\ i > 1
                  /\ pic_commands[i - 1] =
                        [ pic |-> "secondary", vector |-> c.vector ]

\* The last vector of the secondary controller has been acknowledged.
C15_Witness ==
    \E i \in DOMAIN pic_commands :
        /\ pic_commands[i].pic = "secondary"
        /\ pic_commands[i].vector = PIC_2_OFFSET + LinesPerPic - 1

(***************************************************************************)
(* memory/mod.rs: the mapper.  create_example_mapping hands a page, the    *)
(* frame 0xb8000, PRESENT | WRITABLE and a frame allocator to              *)
(* Mapper::map_to of the x86_64 crate; map_to and the translation are      *)
(* modelled from the specification (section 4, map / translate).           *)
(* A virtual page is the tuple of its four table indices <<p4,p3,p2,p1>>.  *)
(***************************************************************************)
MaxMaps == 3
MaxPoolFrames == 3

\* The entries of a table that are used: the first two of each table.
TableIndices == { 0, 1 }

Pages == TableIndices \X TableIndices \X TableIndices \X TableIndices

\* Byte offsets inside a page: the first and the last.
Offsets == { 0, FRAME_SIZE - 1 }

\* PhysAddr::new(0xb8000)
VGA_ADDR == 753664

\* Flags::PRESENT | Flags::WRITABLE
Flags == { "PRESENT", "WRITABLE" }

\* The frames map_to is asked to map a page to.
TargetFrames == { containing_address(VGA_ADDR) }

\* The physical layout the bootloader leaves: the level-4 table (Cr3), the
\* three tables and the frame of one kernel page, then the usable pool.
RootTable == FRAME_SIZE

BootP3 == 2 * FRAME_SIZE

BootP2 == 3 * FRAME_SIZE

BootP1 == 4 * FRAME_SIZE

BootFrame == 5 * FRAME_SIZE

PoolBase == 6 * FRAME_SIZE

UnusedEntry == [ addr |-> 0, flags |-> {} ]

is_unused(entry) == entry = UnusedEntry

UsedEntry(addr, flags) == [ addr |-> addr, flags |-> flags ]

ZeroedTable == [ i \in TableIndices |-> UnusedEntry ]

\* Only the level-4 table exists.
EmptyHierarchy == RootTable :> ZeroedTable

\* The bootloader has mapped the page <<0,0,0,0>>.
BootHierarchy ==
    (RootTable :> [ ZeroedTable EXCEPT ![0] = UsedEntry(BootP3, Flags) ])
    @@ (BootP3 :> [ ZeroedTable EXCEPT ![0] = UsedEntry(BootP2, Flags) ])
    @@ (BootP2 :> [ ZeroedTable EXCEPT ![0] = UsedEntry(BootP1, Flags) ])
    @@ (BootP1 :> [ ZeroedTable EXCEPT ![0] = UsedEntry(BootFrame, Flags) ])

\* The boot memory map: what the bootloader used, then n usable frames.
BootMemoryMap(n) ==
    << [ start |-> 0, end |-> PoolBase, region_type |-> "Reserved" ],
       [ start |-> PoolBase, end |-> PoolBase + n * FRAME_SIZE,
         region_type |-> "Usable" ] >>

Allocators == { "EmptyFrameAllocator", "BootInfoFrameAllocator" }

EmptyAllocatesFrame(cursor) == Some(PoolBase)

\* EmptyFrameAllocator::allocate_frame
empty_allocate_frame(cursor) == None

\* frame_allocator.allocate_frame() of the allocator handed to map_to.
allocate(cursor) ==
    IF allocator = "EmptyFrameAllocator"
    THEN empty_allocate_frame(cursor)
    ELSE nth(usable_frames(memory_map), cursor)

\* The cursor after that call (EmptyFrameAllocator has none).
cursor_after(cursor) ==
    IF allocator = "EmptyFrameAllocator" THEN cursor
    ELSE advance(memory_map, cursor)

\* The table below entry `index` of the table st.table, created if the
\* entry is unused: a frame is allocated, zeroed and entered.
create_next_table(st, index) ==
    IF st.result # "Ok" THEN st
    ELSE LET entry == st.tables[st.table][index]
         IN  IF ~is_unused(entry)
             THEN [ st EXCEPT !.table = entry.addr ]
             ELSE LET frame == allocate(st.cursor)
                      st1 == [ st EXCEPT !.cursor = cursor_after(@),
                                          !.got = IF allocator = "EmptyFrameAllocator"
                                                  THEN @ ELSE Append(@, frame) ]
                  IN  IF frame = None
                      THEN [ st1 EXCEPT !.result = "FrameAllocationFailed" ]
                      ELSE [ st1 EXCEPT
                               !.tables = (frame[1] :> ZeroedTable) @@
                                          [ @ EXCEPT ![st.table][index] =
                                                UsedEntry(frame[1], Flags) ],
                               !.table = frame[1] ]

MapToOverwrites(page, frame, flags) ==
    LET s0 == [ tables |-> page_tables, cursor |-> next, got |-> << >>,
                table |-> RootTable, result |-> "Ok" ]
        s3 == create_next_table(s0, page[1])
        s2 == create_next_table(s3, page[2])
        s1 == create_next_table(s2, page[3])
    IN  IF s1.result # "Ok" THEN s1
        ELSE [ s1 EXCEPT !.tables[s1.table][page[4]] = UsedEntry(frame, flags) ]

MapToWrongFrame(page, frame, flags) ==
    LET s0 == [ tables |-> page_tables, cursor |-> next, got |-> << >>,
                table |-> RootTable, result |-> "Ok" ]
        s3 == create_next_table(s0, page[1])
        s2 == create_next_table(s3, page[2])
        s1 == create_next_table(s2, page[3])
    IN  IF s1.result # "Ok" THEN s1
        ELSE IF ~is_unused(s1.tables[s1.table][page[4]])
             THEN [ s1 EXCEPT !.result = "PageAlreadyMapped" ]
             ELSE [ s1 EXCEPT !.tables[s1.table][page[4]] =
                                  UsedEntry(frame + FRAME_SIZE, flags) ]

\* Mapper::map_to: walk from the level-4 table, creating the missing
\* level-3, level-2 and level-1 tables; then enter the frame, unless the
\* entry of the page is in use.
map_to_walk(page, frame, flags) ==
    LET s0 == [ tables |-> page_tables, cursor |-> next, got |-> << >>,
                table |-> RootTable, result |-> "Ok" ]
        s3 == create_next_table(s0, page[1])
        s2 == create_next_table(s3, page[2])
        s1 == create_next_table(s2, page[3])
    IN  IF s1.result # "Ok" THEN s1
        ELSE IF ~is_unused(s1.tables[s1.table][page[4]])
             THEN [ s1 EXCEPT !.result = "PageAlreadyMapped" ]
             ELSE [ s1 EXCEPT !.tables[s1.table][page[4]] =
                                  UsedEntry(frame, flags) ]

\* mapper.map_to(page, frame, flags, frame_allocator)
map_to ==
    /\ map_result.calls < MaxMaps
    /\ \E page \in Pages, frame \in TargetFrames :
          LET st == map_to_walk(page, frame, Flags)
          IN  /\ page_tables' = st.tables
              /\ next' = st.cursor
              /\ returned' = returned \o st.got
              /\ map_result' = [ calls |-> map_result.calls + 1,
                                 page |-> page, frame |-> frame,
                                 result |-> st.result ]
    /\ UNCHANGED << memory_map, allocator >>
    /\ UNCHANGED << kernelVars, picVars, writerVars, testVars >>

\* The table or frame an entry of table t leads to, if the entry is present.
follow(tables, t, index) ==
    IF t = None THEN None
    ELSE LET entry == tables[t[1]][index]
         IN  IF "PRESENT" \in entry.flags THEN Some(entry.addr) ELSE None

\* The frame a page is mapped to, or None.
translate_page(tables, page) ==
    follow(tables,
           follow(tables,
                  follow(tables,
                         follow(tables, Some(RootTable), page[1]),
                         page[2]),
                  page[3]),
           page[4])

\* translate: the physical address of the byte `offset` of a page.
translate_addr(tables, page, offset) ==
    LET frame == translate_page(tables, page)
    IN  IF frame = None THEN None ELSE Some(frame[1] + offset)

\* The number of intermediate tables (level 3, 2, 1) a page lacks.
missing_tables(tables, page) ==
    LET t3 == follow(tables, Some(RootTable), page[1])
        t2 == follow(tables, t3, page[2])
        t1 == follow(tables, t2, page[3])
    IN  (IF t3 = None THEN 1 ELSE 0) + (IF t2 = None THEN 1 ELSE 0)
          + (IF t1 = None THEN 1 ELSE 0)

\* The number of frames the allocator can still hand out.
remaining_frames ==
    IF allocator = "EmptyFrameAllocator" THEN 0
    ELSE IF next < Len(usable_frames(memory_map))
         THEN Len(usable_frames(memory_map)) - next ELSE 0

\* memory::init over the bootloader's tables, with either allocator:
\* EmptyFrameAllocator, or BootInfoFrameAllocator::init over a memory map.
MapInit ==
    /\ page_tables \in { EmptyHierarchy, BootHierarchy }
    /\ allocator \in Allocators
    /\ \E n \in 0..MaxPoolFrames :
          /\ allocator = "EmptyFrameAllocator" => n = 0
          /\ memory_map = BootMemoryMap(n)
    /\ next = 0
    /\ returned = << >>
    /\ map_result = [ calls |-> 0, page |-> << >>, frame |-> 0,
                      result |-> "none" ]
    /\ KernelIdle
    /\ PicIdle
    /\ WriterIdle
    /\ TestIdle

MapNext == map_to

MapSpec == MapInit /\ [][MapNext]_vars

\* C16: map of a page that is already mapped fails with the mapping-conflict
\* error (and only then), and the failed call leaves the existing mapping,
\* the rest of the hierarchy and the allocator's cursor unchanged.
C16_ConflictLeavesAllUnchanged ==
    [][ LET call == map_result'
            mapped == translate_page(page_tables, call.page) # None
        IN  /\ mapped <=> call.result = "PageAlreadyMapped"
            /\ call.result = "PageAlreadyMapped" =>
                  /\ page_tables' = page_tables
                  /\ next' = next
                  /\ returned' = returned ]_vars

\* A map of the page the bootloader had mapped has failed, with an
\* allocator that had frames to give.
C16_Witness ==
    /\ map_result.result = "PageAlreadyMapped"
    /\ map_result.page = << 0, 0, 0, 0 >>
    /\ remaining_frames > 0

\* C17: map of an unmapped page that lacks an intermediate table fails with
\* allocation-exhausted whenever the allocator runs out (always with
\* EmptyFrameAllocator) and leaves the page unmapped; with
\* EmptyFrameAllocator map succeeds exactly when the three intermediate
\* tables exist and the page is unmapped.
C17_ExhaustedAllocatorFails ==
    [][ LET call == map_result'
            missing == missing_tables(page_tables, call.page)
            unmapped == translate_page(page_tables, call.page) = None
        IN  /\ (unmapped /\ missing >= 1 /\ remaining_frames < missing) =>
                  /\ call.result = "FrameAllocationFailed"
                  /\ translate_page(page_tables', call.page) = None
            /\ allocator = "EmptyFrameAllocator" =>
                  (call.result = "Ok" <=> (missing = 0 /\ unmapped)) ]_vars

\* BootInfoFrameAllocator ran out in the middle of a map that needed three
\* tables, after an earlier map had succeeded.
C17_Witness ==
    /\ allocator = "BootInfoFrameAllocator"
    /\ map_result.result = "FrameAllocationFailed"
    /\ map_result.calls > 1
    /\ returned # << >>
    /\ returned[1] # None
    /\ returned[Len(returned)] = None

\* C18: map of an unmapped page with an allocator that can supply the
\* missing intermediate tables succeeds; afterwards every address of the
\* page translates to the same offset in the given frame, and the mappings
\* of all other pages are as before.
C18_MapThenTranslate ==
    [][ LET call == map_result'
            missing == missing_tables(page_tables, call.page)
            unmapped == translate_page(page_tables, call.page) = None
        IN  (unmapped /\ remaining_frames >= missing) =>
               /\ call.result = "Ok"
               /\ \A offset \in Offsets :
                     translate_addr(page_tables', call.page, offset) =
                        Some(call.frame + offset)
               /\ \A q \in Pages \ { call.page } :
                     translate_page(page_tables', q) =
                        translate_page(page_tables, q) ]_vars

\* A map that had to create all three intermediate tables has succeeded
\* next to the mapping the bootloader made.
C18_Witness ==
    /\ map_result.result = "Ok"
    /\ map_result.calls = 1
    /\ Len(returned) = 3
    /\ translate_page(page_tables, << 0, 0, 0, 0 >>) = Some(BootFrame)
    /\ translate_addr(page_tables, map_result.page, FRAME_SIZE - 1) =
          Some(containing_address(VGA_ADDR) + FRAME_SIZE - 1)

(***************************************************************************)
(* vga_buffer/mod.rs: Writer (the same code in both source trees).         *)
(***************************************************************************)
MaxWrites == 2

BUFFER_HEIGHT == 25

BUFFER_WIDTH == 80

\* b'\n' and b' '
NEWLINE == 10

SPACE == 32

\* The last byte of the printable range 0x20..=0x7e.
LAST_PRINTABLE == 126

\* The largest u8.
U8_MAX == 255

\* The byte write_string hands to write_byte in place of a byte outside the
\* printable range: 0x3f in vga_buffer/mod.rs, 0xfe in text_buffer.rs.
PLACEHOLDER == 63

TEXT_BUFFER_PLACEHOLDER == 254

\* Color::Yellow and Color::Black
Yellow == 14

Black == 0

\* enum Color: the sixteen colors, as their u8 values.
Colors == 0..15

\* x << n on a u8: the bits shifted out are lost.
shl_u8(x, n) == (x * (2 ^ n)) % (U8_MAX + 1)

\* a | b, bit by bit.
RECURSIVE bit_or(_, _)
bit_or(a, b) ==
    IF a = 0 THEN b
    ELSE IF b = 0 THEN a
    ELSE (IF a % 2 = 1 \/ b % 2 = 1 THEN 1 ELSE 0)
         + 2 * bit_or(a \div 2, b \div 2)

ColorCodeShiftsByThree(foreground, background) ==
    bit_or(shl_u8(background, 3), foreground)

\* ColorCode::new: (background as u8) << 4 | (foreground as u8)
ColorCode_new(foreground, background) ==
    bit_or(shl_u8(background, 4), foreground)

\* The color of WRITER.
WriterColor == ColorCode_new(Yellow, Black)

Rows == 0..(BUFFER_HEIGHT - 1)

Cols == 0..(BUFFER_WIDTH - 1)

ScreenChar(ascii_character, color) ==
    [ ascii_character |-> ascii_character, color_code |-> color ]

\* The bytes handed to write_byte: newline, the ends of the printable range,
\* a letter, the byte after the printable range and the largest byte.
WriteBytes ==
    { NEWLINE, SPACE, SPACE + 33, LAST_PRINTABLE, LAST_PRINTABLE + 1, U8_MAX }

\* The arm of write_string's match that hands the byte on unchanged.
is_ascii(byte) ==
    (SPACE <= byte /\ byte <= LAST_PRINTABLE) \/ byte = NEWLINE

\* A string of n printable characters, neighbours differing.
Letters(n) == [ i \in 1..n |-> SPACE + 1 + (i % 90) ]

\* What writeln!(writer, "\n{}", s) writes: a newline, s, a newline.
Line(s) == << NEWLINE >> \o s \o << NEWLINE >>

\* The strings handed to write_string: around one and two full lines, lines
\* between newlines, and strings holding bytes outside the printable range.
Strings ==
    { Letters(n) : n \in { 0, 1, BUFFER_WIDTH, BUFFER_WIDTH + 1,
                           2 * BUFFER_WIDTH, 2 * BUFFER_WIDTH + 1 } }
    \cup { Line(Letters(n)) : n \in { 0, 1, BUFFER_WIDTH } }
    \cup { << U8_MAX >>, << SPACE + 33, LAST_PRINTABLE + 1, U8_MAX, 1 >> }

\* A writer state: the fields of Writer, the count of new_line calls, the
\* cells indexed for writing during the call, and whether the call panicked.
WriterState == [ column_position |-> column_position, buffer |-> buffer,
                 scrolls |-> scrolls, cells |-> {}, panicked |-> panicked,
                 color_code |-> color_code ]

\* Writer::clear_row: the row is overwritten with blanks.
clear_row(w, row) ==
    [ w EXCEPT !.buffer[row] =
                  [ col \in Cols |-> ScreenChar(SPACE, w.color_code) ] ]

NewLineKeepsRows(w) ==
    [ clear_row(w, BUFFER_HEIGHT - 1) EXCEPT
        !.column_position = 0,
        !.scrolls = @ + 1 ]

\* Writer::new_line: every row moves one row up, the last row is cleared,
\* the column is reset.
new_line(w) ==
    LET shifted == [ w EXCEPT !.buffer =
                        [ row \in Rows |->
                            IF row < BUFFER_HEIGHT - 1
                            THEN w.buffer[row + 1] ELSE w.buffer[row] ] ]
    IN  [ clear_row(shifted, BUFFER_HEIGHT - 1) EXCEPT
            !.column_position = 0,
            !.scrolls = @ + 1 ]

WriteByteWrapsInPlace(w, byte) ==
    IF byte = NEWLINE THEN new_line(w)
    ELSE LET w1 == IF w.column_position >= BUFFER_WIDTH
                   THEN [ w EXCEPT !.column_position = 0 ] ELSE w
             row == BUFFER_HEIGHT - 1
             col == w1.column_position
         IN  [ w1 EXCEPT !.buffer[row][col] = ScreenChar(byte, w1.color_code),
                         !.cells = @ \cup { << row, col >> },
                         !.column_position = @ + 1 ]

WriteByteBlanksRow(w, byte) ==
    IF byte = NEWLINE THEN new_line(w)
    ELSE LET w0 == IF w.column_position >= BUFFER_WIDTH
                   THEN new_line(w) ELSE w
             row == BUFFER_HEIGHT - 1
             col == w0.column_position
             w1 == clear_row(w0, row)
         IN  [ w1 EXCEPT
                 !.buffer[row][col] = ScreenChar(byte, w1.color_code),
                 !.cells = @ \cup { << row, col >> },
                 !.column_position = @ + 1 ]

WriteByteScrollsEagerly(w, byte) ==
    IF byte = NEWLINE THEN new_line(w)
    ELSE LET w1 == IF w.column_position >= BUFFER_WIDTH
                   THEN new_line(w) ELSE w
             row == BUFFER_HEIGHT - 1
             col == w1.column_position
             w2 == [ w1 EXCEPT
                       !.buffer[row][col] = ScreenChar(byte, w1.color_code),
                       !.cells = @ \cup { << row, col >> },
                       !.column_position = @ + 1 ]
         IN  IF w2.column_position >= BUFFER_WIDTH THEN new_line(w2) ELSE w2

\* Writer::write_byte
write_byte_to(w, byte) ==
    IF byte = NEWLINE THEN new_line(w)
    ELSE LET w1 == IF w.column_position >= BUFFER_WIDTH
                   THEN new_line(w) ELSE w
             row == BUFFER_HEIGHT - 1
             col == w1.column_position
         IN  [ w1 EXCEPT !.buffer[row][col] = ScreenChar(byte, w1.color_code),
                         !.cells = @ \cup { << row, col >> },
                         !.column_position = @ + 1 ]

\* Writer::write_string over the bytes lo..hi of s, in order: every byte goes
\* through write_byte, a byte outside the printable range as the placeholder.
\* A panic ends the loop.  (The range is halved to keep the evaluation
\* shallow; the order of the bytes is that of the loop.)
RECURSIVE write_string_range(_, _, _, _)
write_string_range(w, s, lo, hi) ==
    IF w.panicked \/ lo > hi THEN w
    ELSE IF lo = hi
    THEN write_byte_to(w, IF is_ascii(s[lo]) THEN s[lo] ELSE PLACEHOLDER)
    ELSE LET mid == (lo + hi) \div 2
         IN  write_string_range(write_string_range(w, s, lo, mid),
                                s, mid + 1, hi)

write_string_to(w, s) == write_string_range(w, s, 1, Len(s))

\* The history record of a call: its operation and argument, the state before
\* it, and the last write_byte made with the state before that one.
Wrote(op, string, byte, before, after) ==
    [ calls |-> wrote.calls + 1, op |-> op, string |-> string,
      from_column |-> column_position, from_scrolls |-> scrolls,
      byte |-> byte, column_position |-> before.column_position,
      scrolls |-> before.scrolls, cells |-> after.cells ]

NoCall ==
    [ calls |-> 0, op |-> "none", string |-> << >>, from_column |-> 0,
      from_scrolls |-> 0, byte |-> 0, column_position |-> 0, scrolls |-> 0,
      cells |-> {} ]

\* A call of write_byte.
write_byte ==
    /\ wrote.calls < MaxWrites
    /\ \E byte \in WriteBytes :
          LET w == write_byte_to(WriterState, byte)
          IN  /\ column_position' = w.column_position
              /\ buffer' = w.buffer
              /\ scrolls' = w.scrolls
              /\ panicked' = w.panicked
              /\ color_code' = w.color_code
              /\ UNCHANGED color_args
              /\ wrote' = Wrote("write_byte", << >>, byte, WriterState, w)
    /\ UNCHANGED << kernelVars, allocVars, picVars, mapVars, testVars >>

\* A call of write_string (and of fmt::Write::write_str, which forwards).
write_string ==
    /\ wrote.calls < MaxWrites
    /\ \E s \in Strings :
          LET w == write_string_to(WriterState, s)
              n == Len(s)
              before == IF n = 0 THEN wrote
                        ELSE write_string_to(WriterState, SubSeq(s, 1, n - 1))
              byte == IF n = 0 THEN wrote.byte
                      ELSE IF is_ascii(s[n]) THEN s[n] ELSE PLACEHOLDER
          IN  /\ column_position' = w.column_position
              /\ buffer' = w.buffer
              /\ scrolls' = w.scrolls
              /\ panicked' = w.panicked
              /\ color_code' = w.color_code
              /\ UNCHANGED color_args
              /\ wrote' = Wrote("write_string", s, byte, before, w)
    /\ UNCHANGED << kernelVars, allocVars, picVars, mapVars, testVars >>

\* A screen whose row r holds the letter number r in every cell, and the
\* blank screen.
LetteredScreen ==
    [ row \in Rows |-> [ col \in Cols |->
        ScreenChar(SPACE + 33 + row, WriterColor) ] ]

BlankScreen ==
    [ row \in Rows |-> [ col \in Cols |-> ScreenChar(SPACE, WriterColor) ] ]

\* The columns a run starts from: the ends of the last row, their
\* neighbours, and just behind the end of the row.
StartColumns == { 0, 1, BUFFER_WIDTH - 1, BUFFER_WIDTH }

\* A state a Writer can be in.
WriterInit ==
    /\ column_position \in StartColumns
    /\ buffer \in { LetteredScreen, BlankScreen }
    /\ scrolls = 0
    /\ wrote = NoCall
    /\ panicked = FALSE
    /\ color_code = WriterColor
    /\ color_args = << Yellow, Black >>
    /\ KernelIdle
    /\ AllocIdle
    /\ PicIdle
    /\ MapIdle
    /\ TestIdle

WriterNext ==
    \/ write_byte
    \/ write_string

WriterSpec == WriterInit /\ [][WriterNext]_vars

\* The last call wrote a printable byte or a newline.
WrotePrintableOrNewline ==
    /\ wrote.calls > 0
    /\ \/ wrote.byte = NEWLINE
       \/ (SPACE <= wrote.byte /\ wrote.byte <= LAST_PRINTABLE)

\* C20 as stated: a write_byte of a printable byte or a newline either
\* advances the column by one without scrolling or, on newline or when the
\* line is full, scrolls once and leaves the column at zero.
C20_AdvanceOrScrollToZero ==
    WrotePrintableOrNewline =>
       \/ /\ column_position = wrote.column_position + 1
          /\ scrolls = wrote.scrolls
       \/ /\ wrote.byte = NEWLINE \/ wrote.column_position >= BUFFER_WIDTH
          /\ scrolls = wrote.scrolls + 1
          /\ column_position = 0

\* C20: a write_byte of a printable byte or a newline does one of three
\* things: below the end of the line a printable byte advances the column by
\* one without scrolling; a newline scrolls once and leaves the column at
\* zero; a printable byte on a full line scrolls once, is written at column
\* zero of the fresh line and leaves the column at one.
C20_AdvanceScrollOrWrap ==
    WrotePrintableOrNewline =>
       \/ /\ wrote.byte # NEWLINE
          /\ wrote.column_position < BUFFER_WIDTH
          /\ column_position = wrote.column_position + 1
          /\ scrolls = wrote.scrolls
       \/ /\ wrote.byte = NEWLINE
          /\ scrolls = wrote.scrolls + 1
          /\ column_position = 0
       \/ /\ wrote.byte # NEWLINE
          /\ wrote.column_position >= BUFFER_WIDTH
          /\ scrolls = wrote.scrolls + 1
          /\ column_position = 1
          /\ buffer[BUFFER_HEIGHT - 1][0].ascii_character = wrote.byte

\* A printable byte was written on a full line.
C20_Witness ==
    /\ wrote.calls > 0
    /\ wrote.byte = LAST_PRINTABLE
    /\ wrote.column_position = BUFFER_WIDTH
    /\ column_position = 1

\* The last call was write_string, from column 0, of more than one line of
\* printable characters without a newline.
WroteLongString ==
    /\ wrote.op = "write_string"
    /\ wrote.from_column = 0
    /\ Len(wrote.string) > BUFFER_WIDTH
    /\ \A i \in 1..Len(wrote.string) :
          SPACE <= wrote.string[i] /\ wrote.string[i] <= LAST_PRINTABLE

\* C21 as stated: write_string of n > 80 printable characters without a
\* newline, from column 0, scrolls floor(n / 80) times.
C21_ScrollPerEightyWritten ==
    WroteLongString =>
        scrolls - wrote.from_scrolls = Len(wrote.string) \div BUFFER_WIDTH

\* C21: write_string of n > 80 printable characters without a newline, from
\* column 0, scrolls floor((n - 1) / 80) times: a full line scrolls only when
\* the next character arrives.
C21_ScrollPerEightyExceeded ==
    WroteLongString =>
        scrolls - wrote.from_scrolls
            = (Len(wrote.string) - 1) \div BUFFER_WIDTH

\* Exactly two lines were written from column 0, with one scroll.
C21_Witness ==
    /\ WroteLongString
    /\ Len(wrote.string) = 2 * BUFFER_WIDTH
    /\ scrolls = wrote.from_scrolls + 1
    /\ column_position = BUFFER_WIDTH

\* The bytes the caller handed to the last call.
WroteArgument ==
    IF wrote.op = "write_byte" THEN << wrote.byte >> ELSE wrote.string

\* C23: a byte outside the printable range that is not a newline, written
\* with write_byte or as the last byte of a write_string, is in the grid as
\* the placeholder glyph and not as its raw value.
C23_StoredAsPlaceholder ==
    ( /\ wrote.calls > 0
      /\ ~ panicked
      /\ Len(WroteArgument) > 0
      /\ ~ is_ascii(WroteArgument[Len(WroteArgument)]) )
    => /\ column_position > 0
       /\ buffer[BUFFER_HEIGHT - 1][column_position - 1].ascii_character
             = PLACEHOLDER

\* The last call was write_string of a newline, at most one line of printable
\* characters, and a newline.
WroteLine ==
    /\ wrote.op = "write_string"
    /\ Len(wrote.string) >= 2
    /\ Len(wrote.string) - 2 <= BUFFER_WIDTH
    /\ wrote.string[1] = NEWLINE
    /\ wrote.string[Len(wrote.string)] = NEWLINE
    /\ \A i \in 2..(Len(wrote.string) - 1) :
          SPACE <= wrote.string[i] /\ wrote.string[i] <= LAST_PRINTABLE

\* C24: after a newline, a string s of at most 80 printable characters and a
\* newline, row 23 holds the characters of s in columns 0..len(s)-1, in
\* order.
C24_LineOnSecondToLastRow ==
    WroteLine =>
        \A i \in 1..(Len(wrote.string) - 2) :
            buffer[BUFFER_HEIGHT - 2][i - 1].ascii_character
                = wrote.string[i + 1]

\* A line of exactly 80 characters was written between two newlines, starting
\* behind the end of a full row.
C24_Witness ==
    /\ WroteLine
    /\ Len(wrote.string) = BUFFER_WIDTH + 2
    /\ wrote.from_column = BUFFER_WIDTH
    /\ buffer[BUFFER_HEIGHT - 2][BUFFER_WIDTH - 1].ascii_character
          = wrote.string[BUFFER_WIDTH + 1]

(***************************************************************************)
(* vga_buffer/text_buffer.rs: the second Writer of the repository.         *)
(***************************************************************************)
\* Writer::new_line: unimplemented!(), the call panics.
text_buffer_new_line(w) ==
    [ w EXCEPT !.scrolls = @ + 1, !.panicked = TRUE ]

\* Writer::write_byte
text_buffer_write_byte_to(w, byte) ==
    IF byte = NEWLINE THEN text_buffer_new_line(w)
    ELSE LET w1 == IF w.column_position >= BUFFER_WIDTH
                   THEN text_buffer_new_line(w) ELSE w
             row == BUFFER_HEIGHT - 1
             col == w1.column_position
         IN  IF w1.panicked THEN w1
             ELSE [ w1 EXCEPT
                      !.buffer[row][col] = ScreenChar(byte, w1.color_code),
                      !.cells = @ \cup { << row, col >> },
                      !.column_position = @ + 1 ]

\* Writer::write_string over the bytes lo..hi of s, in order; a panic ends
\* the loop.
RECURSIVE text_buffer_write_string_range(_, _, _, _)
text_buffer_write_string_range(w, s, lo, hi) ==
    IF w.panicked \/ lo > hi THEN w
    ELSE IF lo = hi
    THEN text_buffer_write_byte_to(w, IF is_ascii(s[lo]) THEN s[lo]
                                      ELSE TEXT_BUFFER_PLACEHOLDER)
    ELSE LET mid == (lo + hi) \div 2
         IN  text_buffer_write_string_range(
                text_buffer_write_string_range(w, s, lo, mid),
                s, mid + 1, hi)

text_buffer_write_string_to(w, s) ==
    text_buffer_write_string_range(w, s, 1, Len(s))

\* A call of write_byte.
text_buffer_write_byte ==
    /\ ~ panicked
    /\ wrote.calls < MaxWrites
    /\ \E byte \in WriteBytes :
          LET w == text_buffer_write_byte_to(WriterState, byte)
          IN  /\ column_position' = w.column_position
              /\ buffer' = w.buffer
              /\ scrolls' = w.scrolls
              /\ panicked' = w.panicked
              /\ color_code' = w.color_code
              /\ UNCHANGED color_args
              /\ wrote' = Wrote("write_byte", << >>, byte, WriterState, w)
    /\ UNCHANGED << kernelVars, allocVars, picVars, mapVars, testVars >>

\* A call of write_string.
text_buffer_write_string ==
    /\ ~ panicked
    /\ wrote.calls < MaxWrites
    /\ \E s \in Strings :
          LET w == text_buffer_write_string_to(WriterState, s)
              n == Len(s)
              before == IF n = 0 THEN wrote
                        ELSE text_buffer_write_string_to(
                                WriterState, SubSeq(s, 1, n - 1))
              byte == IF n = 0 THEN wrote.byte
                      ELSE IF is_ascii(s[n]) THEN s[n]
                      ELSE TEXT_BUFFER_PLACEHOLDER
          IN  /\ column_position' = w.column_position
              /\ buffer' = w.buffer
              /\ scrolls' = w.scrolls
              /\ panicked' = w.panicked
              /\ color_code' = w.color_code
              /\ UNCHANGED color_args
              /\ wrote' = Wrote("write_string", s, byte, before, w)
    /\ UNCHANGED << kernelVars, allocVars, picVars, mapVars, testVars >>

TextBufferInit == WriterInit

TextBufferNext ==
    \/ text_buffer_write_byte
    \/ text_buffer_write_string

TextBufferSpec == TextBufferInit /\ [][TextBufferNext]_vars

\* C22: every scroll made by a write_byte moves row r to row r-1 for r in
\* 1..24, leaves the last row blank (but for the byte the call then writes at
\* column 0), puts the column at 0 (at 1 behind that byte), and does not
\* panic.
C22_ScrollShiftsRowsUp ==
    [][ ( /\ scrolls' = scrolls + 1
          /\ wrote'.op = "write_byte" )
        => /\ ~ panicked'
           /\ \A row \in 1..(BUFFER_HEIGHT - 1) :
                 buffer'[row - 1] = buffer[row]
           /\ \A col \in Cols :
                 \/ buffer'[BUFFER_HEIGHT - 1][col]
                       = ScreenChar(SPACE, color_code)
                 \/ /\ col = 0
                    /\ wrote'.byte # NEWLINE
                    /\ buffer'[BUFFER_HEIGHT - 1][col]
                          = ScreenChar(wrote'.byte, color_code)
           /\ column_position' = IF wrote'.byte = NEWLINE THEN 0 ELSE 1
      ]_vars

\* C25: the writer never panics, its column stays within 0..80, and every
\* cell a call indexes for writing is on the last row at a column below 80.
C25_StaysInsideGrid ==
    /\ ~ panicked
    /\ column_position \in 0..BUFFER_WIDTH
    /\ \A cell \in wrote.cells :
          cell[1] = BUFFER_HEIGHT - 1 /\ cell[2] \in Cols

(***************************************************************************)
(* More claims about the frame allocator (checked under AllocSpec).        *)
(***************************************************************************)
\* The number of addresses start, start + 4096, ... below end that a region
\* contributes: none unless it is Usable.
Contributes(region) ==
    IF region.region_type = "Usable" /\ region.start < region.end
    THEN (region.end - region.start + FRAME_SIZE - 1) \div FRAME_SIZE
    ELSE 0

\* The number of addresses contributed by the regions before region j.
RECURSIVE ContributedBefore(_, _)
ContributedBefore(map, j) ==
    IF j <= 1 THEN 0
    ELSE ContributedBefore(map, j - 1) + Contributes(map[j - 1])

\* The start of the frame that holds addr.
FrameHolding(addr) == (addr \div FRAME_SIZE) * FRAME_SIZE

\* C26: the k-th call of allocate_frame returns the frame containing the
\* k-th address of the enumeration that takes the Usable regions in list
\* order and, inside each, start, start + 4096, ... below end.
C26_KthCallKthAddress ==
    \A j \in DOMAIN memory_map :
        \A i \in 0..(Contributes(memory_map[j]) - 1) :
            LET k == ContributedBefore(memory_map, j) + i + 1
            IN  k \in DOMAIN returned =>
                    returned[k] = Some(FrameHolding(
                        memory_map[j].start + i * FRAME_SIZE))

\* Two Usable regions, the second with a start that is not a multiple of
\* 4096: the first call took the address of the first region, the second
\* call the start of the second region.
C26_Witness ==
    /\ Len(memory_map) = 2
    /\ Contributes(memory_map[1]) = 1
    /\ Contributes(memory_map[2]) >= 1
    /\ memory_map[2].start % FRAME_SIZE # 0
    /\ Len(returned) >= 2
    /\ returned[1] = Some(FrameHolding(memory_map[1].start))
    /\ returned[2] = Some(FrameHolding(memory_map[2].start))

\* C27: every frame returned by allocate_frame has a start address that is a
\* multiple of 4096, also when the start of a Usable region is not.
C27_FrameStartAligned ==
    \A k \in DOMAIN returned :
        returned[k] # None => returned[k][1] % FRAME_SIZE = 0

\* A frame was returned for a Usable region whose start is not a multiple of
\* 4096.
C27_Witness ==
    /\ Len(memory_map) >= 1
    /\ Contributes(memory_map[1]) >= 1
    /\ memory_map[1].start % FRAME_SIZE # 0
    /\ Len(returned) >= 1
    /\ returned[1] # None
    /\ returned[1][1] < memory_map[1].start

(***************************************************************************)
(* Claims about the dispatch table and the controller pair (Spec).         *)
(***************************************************************************)
\* The vectors of the five events: breakpoint, page fault, double fault, the
\* timer (base + 0) and the keyboard (base + 1).
EventVectors ==
    { BREAKPOINT_VECTOR, PAGE_FAULT_VECTOR, DOUBLE_FAULT_VECTOR,
      PIC_1_OFFSET + TimerLine, PIC_1_OFFSET + KeyboardLine }

\* C28: the dispatch table loaded by init_idt has a handler at the vector of
\* each of the five events, and no event ends in the double-fault handler
\* for want of a handler at its vector.
C28_EventsFindHandlers ==
    /\ (\E i \in DOMAIN loaded : loaded[i] = "idt") =>
          \A vector \in EventVectors : IDT(vector) # "missing"
    /\ \A i \in DOMAIN stack : stack[i].ctx # "double_fault"

\* The vectors of the CPU exceptions.
CpuExceptionVectors == 0..31

\* C29: interrupts are enabled only after the controller pair has been
\* remapped, and no hardware IRQ has been delivered on a vector of the
\* exception range 0..31, the double-fault vector 8 included.
C29_NoIrqOnExceptionVector ==
    /\ interrupts_enabled => pics_initialized
    /\ in_service # {} => pics_initialized
    /\ \A vector \in irq_vectors :
          /\ vector \notin CpuExceptionVectors
          /\ vector # DOUBLE_FAULT_VECTOR

\* Both lines have been delivered, on the remapped vectors, and interrupts
\* are enabled again.
C29_Witness ==
    /\ Cardinality(irq_vectors) = 2
    /\ pics_initialized
    /\ interrupts_enabled

\* The eight vectors of each controller.
PrimaryVectors == PIC_1_OFFSET..(PIC_1_OFFSET + 7)

SecondaryVectors == PIC_2_OFFSET..(PIC_2_OFFSET + 7)

\* C30: the vector ranges of the two controllers are disjoint from each
\* other and from the exception range 0..31; every InterruptIndex value, and
\* the vector of every IRQ handler that has run, lies in the primary range.
C30_RangesDisjoint ==
    /\ PrimaryVectors = 32..39
    /\ SecondaryVectors = 40..47
    /\ PrimaryVectors \cap SecondaryVectors = {}
    /\ PrimaryVectors \cap CpuExceptionVectors = {}
    /\ SecondaryVectors \cap CpuExceptionVectors = {}
    /\ \A name \in { "Timer", "Keyboard" } :
          InterruptIndex(name) \in PrimaryVectors
    /\ \A c \in completed :
          c.ctx \in IrqHandlers => c.vector \in PrimaryVectors

\* A timer handler and a keyboard handler have run, each on its
\* InterruptIndex vector.
C30_Witness ==
    /\ \E c \in completed :
          c.ctx = "timer" /\ c.vector = InterruptIndex("Timer")
    /\ \E c \in completed :
          c.ctx = "keyboard" /\ c.vector = InterruptIndex("Keyboard")

(***************************************************************************)
(* The frame effect of allocate_frame (checked under AllocSpec).           *)
(***************************************************************************)
\* What a call made after `calls` earlier calls returns over a map: the
\* frame of the address number calls + 1 of the enumeration, None when the
\* enumeration is shorter.
ResultAfter(map, calls) ==
    LET hits == { << j, i >> \in (DOMAIN map) \X (0..MaxAddrUnits) :
                     /\ i < Contributes(map[j])
                     /\ ContributedBefore(map, j) + i = calls }
    IN  IF hits = {} THEN None
        ELSE LET h == CHOOSE h \in hits : TRUE
             IN  Some(FrameHolding(map[h[1]].start + h[2] * FRAME_SIZE))

\* C35: every allocate_frame call increases next by exactly one, whether it
\* returns a frame or None, and leaves the memory map as it is; its result is
\* determined by the map and the number of earlier calls.
C35_CursorStepsByOne ==
    [][ /\ next' = next + 1
        /\ memory_map' = memory_map
        /\ Len(returned') = Len(returned) + 1
        /\ SubSeq(returned', 1, Len(returned)) = returned
        /\ returned'[Len(returned')] = ResultAfter(memory_map, Len(returned))
      ]_vars

\* A call that returned None has moved the cursor as the calls that returned
\* a frame did.
C35_Witness ==
    /\ Len(returned) >= 2
    /\ returned[1] # None
    /\ returned[Len(returned)] = None
    /\ next = Len(returned)

(***************************************************************************)
(* The frame effect of write_byte (checked under WriterSpec).              *)
(***************************************************************************)
\* C33: write_byte of a byte that is not a newline, with the column below
\* 80, puts that byte with the writer's color into the cell at the last row
\* and the current column, increments the column, and leaves every other
\* cell, the writer's color and the rows' positions as they were.
C33_OneCellWritten ==
    [][ ( /\ wrote'.op = "write_byte"
          /\ wrote'.byte # NEWLINE
          /\ column_position < BUFFER_WIDTH )
        => /\ \A row \in Rows : \A col \in Cols :
                 buffer'[row][col] =
                    IF row = BUFFER_HEIGHT - 1 /\ col = column_position
                    THEN ScreenChar(wrote'.byte, color_code)
                    ELSE buffer[row][col]
           /\ column_position' = column_position + 1
           /\ color_code' = color_code
           /\ scrolls' = scrolls
      ]_vars

\* A byte was written into the last column of the last row of a screen that
\* held other characters there.
C33_Witness ==
    /\ wrote.op = "write_byte"
    /\ wrote.byte = LAST_PRINTABLE
    /\ wrote.column_position = BUFFER_WIDTH - 1
    /\ column_position = BUFFER_WIDTH
    /\ scrolls = 0
    /\ buffer[BUFFER_HEIGHT - 1][BUFFER_WIDTH - 1]
          = ScreenChar(LAST_PRINTABLE, color_code)
    /\ buffer[BUFFER_HEIGHT - 1][0].ascii_character # SPACE

(***************************************************************************)
(* vga_buffer/color.rs: ColorCode::new over every pair of colors.          *)
(***************************************************************************)
\* A Writer is given the color code of a foreground and a background color.
new_color_code ==
    /\ \E foreground \in Colors, background \in Colors :
          /\ color_code' = ColorCode_new(foreground, background)
          /\ color_args' = << foreground, background >>
    /\ UNCHANGED << column_position, buffer, scrolls, wrote, panicked >>
    /\ UNCHANGED << kernelVars, allocVars, picVars, mapVars, testVars >>

ColorInit ==
    /\ WriterIdle
    /\ TestIdle
    /\ KernelIdle
    /\ AllocIdle
    /\ PicIdle
    /\ MapIdle

ColorNext == new_color_code

ColorSpec == ColorInit /\ [][ColorNext]_vars

MaxTests == 3

\* What the body of a test does: it returns, or it panics.
TestBodies == { "returns", "panics" }

\* The lists of tests handed to test_runner.
TestLists ==
    UNION { [ 1..n -> TestBodies ] : n \in 0..MaxTests }

\* The I/O port of the isa-debug-exit device.
EXIT_PORT == 244

\* enum QemuExitCode (repr(u32)).
QemuExitCode(name) ==
    CASE name = "Success" -> 16
      [] name = "Failed" -> 17

RunFlowSwallowsPanic(pc, body) ==
    CASE pc = "print_name" -> "call"
      [] pc = "call" -> "print_ok"
      [] pc = "print_ok" -> "for"

\* Testable::run: prints the name, calls the test, prints [ok].  A panic in
\* the body unwinds nothing: the panic handler is entered.
run_flow(pc, body) ==
    CASE pc = "print_name" -> "call"
      [] pc = "call" -> IF body = "returns" THEN "print_ok"
                        ELSE "test_panic_handler"
      [] pc = "print_ok" -> "for"

\* test_kernel_main: init(), then test_main(), which calls test_runner with
\* the list of tests; when test_main returns, hlt_loop().
test_kernel_main ==
    /\ test_pc = "test_kernel_main"
    /\ test_pc' = "test_runner"
    /\ UNCHANGED << tests, test_index, started, finished, port_writes >>
    /\ UNCHANGED << kernelVars, allocVars, picVars, mapVars, writerVars >>

\* test_runner: prints the number of tests, runs them in list order, then
\* calls exit_qemu(Success).
test_runner ==
    /\ \/ /\ test_pc = "test_runner"
          /\ test_pc' = "for"
       \/ /\ test_pc = "for"
          /\ test_index < Len(tests)
          /\ test_pc' = "print_name"
       \/ /\ test_pc = "for"
          /\ test_index >= Len(tests)
          /\ test_pc' = "exit_qemu_success"
    /\ UNCHANGED << tests, test_index, started, finished, port_writes >>
    /\ UNCHANGED << kernelVars, allocVars, picVars, mapVars, writerVars >>

\* Testable::run of the test at the loop's position.
Testable_run ==
    /\ test_pc \in { "print_name", "call", "print_ok" }
    /\ test_pc' = run_flow(test_pc, tests[test_index + 1])
    /\ started' = IF test_pc = "call"
                  THEN Append(started, test_index + 1) ELSE started
    /\ finished' = IF test_pc = "print_ok"
                   THEN Append(finished, test_index + 1) ELSE finished
    /\ test_index' = IF test_pc = "print_ok"
                     THEN test_index + 1 ELSE test_index
    /\ UNCHANGED << tests, port_writes >>
    /\ UNCHANGED << kernelVars, allocVars, picVars, mapVars, writerVars >>

\* test_panic_handler: prints [failed] and the panic, then calls
\* exit_qemu(Failed).
test_panic_handler ==
    /\ test_pc = "test_panic_handler"
    /\ test_pc' = "exit_qemu_failed"
    /\ UNCHANGED << tests, test_index, started, finished, port_writes >>
    /\ UNCHANGED << kernelVars, allocVars, picVars, mapVars, writerVars >>

\* exit_qemu(exit_code): writes the code to the exit port.  With the device
\* present the machine exits; without it the write returns, to test_runner
\* (which returns to test_main and test_kernel_main: hlt_loop) or to
\* test_panic_handler (hlt_loop).
exit_qemu ==
    /\ test_pc \in { "exit_qemu_success", "exit_qemu_failed" }
    /\ port_writes' = Append(port_writes,
          [ port |-> EXIT_PORT,
            value |-> IF test_pc = "exit_qemu_success"
                      THEN QemuExitCode("Success")
                      ELSE QemuExitCode("Failed"),
            by |-> IF test_pc = "exit_qemu_success"
                   THEN "test_runner" ELSE "test_panic_handler" ])
    /\ \/ test_pc' = "exited"
       \/ test_pc' = "hlt_loop"
    /\ UNCHANGED << tests, test_index, started, finished >>
    /\ UNCHANGED << kernelVars, allocVars, picVars, mapVars, writerVars >>

TestInit ==
    /\ tests \in TestLists
    /\ test_pc = "test_kernel_main"
    /\ test_index = 0
    /\ started = << >>
    /\ finished = << >>
    /\ port_writes = << >>
    /\ KernelIdle
    /\ AllocIdle
    /\ PicIdle
    /\ MapIdle
    /\ WriterIdle

TestNext ==
    \/ test_kernel_main
    \/ test_runner
    \/ Testable_run
    \/ test_panic_handler
    \/ exit_qemu

TestSpec == TestInit /\ [][TestNext]_vars

(***************************************************************************)
(* Claims about the test binary (TestSpec).                                *)
(***************************************************************************)
\* The values written to the exit port so far, in order.
ExitCodesWritten ==
    [ i \in DOMAIN port_writes |-> port_writes[i].value ]

SuccessWritten ==
    \E i \in DOMAIN port_writes : port_writes[i].value = 16

FailedWritten ==
    \E i \in DOMAIN port_writes : port_writes[i].value = 17

C32_SuccessWitness ==
    /\ Len(tests) = 3
    /\ finished = << 1, 2, 3 >>
    /\ ExitCodesWritten = << 16 >>
    /\ test_pc = "hlt_loop"

DOUBLE_FAULT_IST_INDEX == 0

\* const STACK_SIZE: usize = 4096 * 5, the size of static mut STACK.
STACK_SIZE == 4096 * 5

\* The slots of TaskStateSegment.interrupt_stack_table.
IstSlots == 0..6

\* TSS.interrupt_stack_table: an address is a static and an offset from its
\* start.  TaskStateSegment::new() leaves every slot at the zero address;
\* the slot of the double fault holds stack_end = stack_start + STACK_SIZE.
interrupt_stack_table(slot) ==
    IF slot = DOUBLE_FAULT_IST_INDEX
    THEN [ base |-> "STACK", offset |-> STACK_SIZE ]
    ELSE [ base |-> "zero", offset |-> 0 ]

StackIndexAlsoForPageFault(vector) ==
    IF vector \in { DOUBLE_FAULT_VECTOR, PAGE_FAULT_VECTOR }
    THEN Some(DOUBLE_FAULT_IST_INDEX)
    ELSE None

\* The stack index of an IDT entry: set_stack_index is called on
\* idt.double_fault only, in both trees.
stack_index(vector) ==
    IF vector = DOUBLE_FAULT_VECTOR
    THEN Some(DOUBLE_FAULT_IST_INDEX)
    ELSE None

\* The stack the i-th context runs on, as the address its stack pointer
\* started from.  kernel_main runs on the stack the bootloader set up; a
\* handler whose entry has a stack index starts at the address in that slot
\* of the loaded TSS; any other handler continues on the stack of the
\* context it interrupted (there is no change of privilege level).
RECURSIVE stack_of(_)
stack_of(i) ==
    IF i <= 1 THEN [ base |-> "boot_stack", offset |-> 0 ]
    ELSE LET index == stack_index(stack[i].vector)
         IN  IF index = None THEN stack_of(i - 1)
             ELSE IF \E k \in DOMAIN loaded : loaded[k] = "tss"
                  THEN interrupt_stack_table(index[1])
                  ELSE [ base |-> "undefined", offset |-> 0 ]

(***************************************************************************)
(* Claim about the double-fault stack (Spec).                              *)
(***************************************************************************)
\* The vectors of an IDT.
Vectors == 0..255

\* C31: the double-fault entry is the only IDT entry with a stack index; the
\* index is 0, the slot of the TSS that holds the top address (start + 20480)
\* of the static STACK, which no other slot holds; and the contexts that run
\* on STACK are exactly the double-fault handlers: every other handler, and
\* kernel_main, runs on another stack.
C31_DoubleFaultStackDedicated ==
    /\ \A vector \in Vectors :
          stack_index(vector) # None <=> vector = 8
    /\ stack_index(8) = Some(0)
    /\ interrupt_stack_table(0) = [ base |-> "STACK", offset |-> 20480 ]
    /\ \A slot \in IstSlots :
          slot # 0 => interrupt_stack_table(slot).base # "STACK"
    /\ \A i \in DOMAIN stack :
          stack_of(i).base = "STACK" <=> stack[i].ctx = "double_fault"

\* A handler has run and returned on the stack of kernel_main, and later the
\* double-fault handler is running on STACK, above kernel_main on the boot
\* stack.
C31_Witness ==
    /\ \E c \in completed : c.ctx \in { "timer", "breakpoint" }
    /\ Len(stack) = 2
    /\ stack[2].ctx = "double_fault"
    /\ stack_of(2) = [ base |-> "STACK", offset |-> 20480 ]
    /\ stack_of(1).base = "boot_stack"

====
